---- MODULE Spec2Model ----
(***************************************************************************)
(* Analytics Engine (dispatcher, unary Analyze, server-streaming           *)
(* BatchAnalyze) and the Gateway's Engine client (lazily connected,        *)
(* cached channel).                                                        *)
(*                                                                         *)
(* Strings produced with format!/anyhow! are sequences of tokens, so that  *)
(* "the message contains ..." is a statement about sub-sequences.          *)
(***************************************************************************)
EXTENDS Integers, Sequences, FiniteSets, TLC

\* ------------------------------------------------------------------ bounds
\* longest `data` vector of a request
MaxData == 2
\* longest `requests` vector of a BatchAnalysisRequest
MaxBatch == 2
\* tasks of the Gateway that call the Engine client concurrently
MaxCallers == 2
\* calls of AnalyticsEngineClient::analyze in one behaviour
MaxClientCalls == 3
\* longest `statistics` list of a CalculateStatisticsRequest
MaxStats == 2
\* HealthCheck calls in one behaviour
MaxHealthChecks == 2
\* generate_random_data calls in one behaviour
MaxGenCalls == 3
\* items that exist in one behaviour
MaxItems == 2
\* calls of the CRUD service in one behaviour
MaxCrudCalls == 3
\* tokens a behaviour can issue
MaxTokens == 2
\* calls of the auth service in one behaviour
MaxAuthCalls == 4
\* hours of clock a behaviour covers
MaxClock == 36

\* AnalysisOptions::default().timeout_ms, "30秒默认超时"
DefaultTimeoutMs == 30000
\* create_token: `now + Duration::hours(24)`
TokenTtlHours == 24
\* largest `count` GenerateRandomDataRequest::validate accepts
MaxCount == 1000000
\* elements of the generated data shown in DataSummary.preview
PreviewLen == 10

VARIABLES
    \* ---- Engine build and environment
    python_bridge,    \* cargo feature "python-bridge" compiled in
    python_catalog,   \* names returned by get_python_algorithms()
    \* ---- Engine, unary Analyze handler
    u_pc,             \* "idle" | "python" (awaiting spawn_blocking) | "done"
    u_req,            \* the gRPC request being served, <<>> or <<g>>
    u_attempts,       \* kernel calls made for it, in order
    u_result,         \* what dispatcher::analyze returned, <<>> or <<r>>
    u_reply,          \* what the handler returned, <<>> or <<[status, body]>>
    \* ---- Engine, BatchAnalyze stream
    stream_state,     \* "NONE" | "OPEN" | "CLOSED" | "CANCELLED"
    requests,         \* batch_request.requests
    idx,              \* 1-based position of the for loop
    b_pc,             \* "idle" | "python"
    b_attempts,       \* kernel calls made for the batch, with their item
    emitted,          \* messages yielded so far, each with the slot it is for
    cancel_at,        \* <<>> or <<[idx, emitted]>> as they were at cancellation
    \* ---- Gateway, AnalyticsEngineClient
    cache,            \* the `client` field: <<>> for None, <<ch>> for Some
    opened,           \* channels connected so far; the n-th has id n
    inv_pending,      \* spawned invalidation tasks that have not run yet
    c_pc,             \* per caller: "idle" | "get_client" | "connect" |
                      \*   "cache_write" | "rpc"
    c_chan,           \* per caller: the channel its call holds, 0 for none
    c_outcome,        \* per caller: how its last call returned
    c_stale,          \* per caller: channels whose Unavailable failure had
                      \*   been reported when its current call was issued
    reported,         \* channels whose Unavailable failure has been reported
    calls,            \* calls of analyze issued so far
    c_sent,           \* per caller: requests its current call has sent to
                      \*   the Engine
    \* ---- Gateway, Statistics handler over ConcreteStatisticsService
    s_pc,             \* "idle" | "connect" | "rpc" | "done"
    s_req,            \* the StatisticsRequest being served, <<>> or <<r>>
    s_gen,            \* what generate_random_data returned, <<>> or <<resp>>
    s_stats,          \* the CalculateStatisticsRequest being computed
    s_i,              \* 1-based position of the loop over the statistics
    s_results,        \* the `results` map of calculate_statistics
    s_calls,          \* Engine calls issued, in order
    s_opened,         \* channels GrpcAnalyticsClient has connected
    s_error,          \* the StatError the service returned, <<>> or <<e>>
    s_reply,          \* what the handler returned, <<>> or <<response>>
    \* ---- Gateway, AnalyticsProxy handler over AnalyticsEngineClient
    px_pc,            \* "idle" | "analyze" (awaiting the client) | "done"
    px_req,           \* the AnalyticsProxyRequest being served, <<>> or <<r>>
    px_engine,        \* what analytics_client.analyze returned, <<>> or <<res>>
    px_reply,         \* what the handler returned, <<>> or <<[status, ..]>>
    \* ---- Engine, Python environment and HealthCheck
    py_importable,    \* `import analytics_engine.algorithms` would succeed now
    probes,           \* runs of is_python_available() made for requests
    h_seen,           \* capabilities["python"] of the HealthChecks answered
    \* ---- Gateway, DefaultRandomDataGenerator shared by concurrent requests
    performance_metrics, \* the generator's map: <<>> or <<[last_distribution,
                      \*   last_count]>>
    g_pc,             \* per caller: "idle" | "generated" (data drawn, response
                      \*   not yet built)
    g_held,           \* per caller: the response under construction
    g_log,            \* the responses generate_random_data has returned
    \* ---- Gateway, SqliteCrudService over SqliteItemRepository and MemoryCache
    items_table,      \* the rows of table `items`: id -> <<>> or <<row>>
    item_cache,       \* MemoryCache under key "item:{id}": id -> <<>> or <<item>>
    next_id,          \* ids handed out so far (Uuid::new_v4 never repeats)
    cr_pc,            \* per task: "idle" or the store or cache access it is
                      \*   about to make
    cr_call,          \* per task: the call being served, <<>> or <<call>>
    cr_item,          \* per task: the `item` local of the call, <<>> or <<item>>
    crud_calls,       \* calls of the service started so far
    crud_returns,     \* what the calls returned: [op, id, kind, message,
                      \*   after_delete]
    \* ---- Gateway, JwtAuthService over MemoryTokenRepository
    tokens,           \* the repository's map: token -> <<>> or <<session>>
    auth_now,         \* Utc::now(), in hours
    issued_at,        \* per token: <<>> or <<hour a successful login returned it>>
    revoked,          \* tokens revoke_token has been called with
    auth_last,        \* the last call served: [op, token, kind, now]
    auth_calls        \* calls of the service served so far

engine_vars == <<python_bridge, python_catalog>>
unary_vars  == <<u_pc, u_req, u_attempts, u_result, u_reply>>
batch_vars  == <<stream_state, requests, idx, b_pc, b_attempts, emitted, cancel_at>>
client_vars == <<cache, opened, inv_pending, c_pc, c_chan, c_outcome, c_stale,
                 reported, calls, c_sent>>
stat_vars   == <<s_pc, s_req, s_gen, s_stats, s_i, s_results, s_calls, s_opened,
                 s_error, s_reply>>
proxy_vars  == <<px_pc, px_req, px_engine, px_reply>>
probe_vars  == <<py_importable, probes, h_seen>>
gen_vars    == <<performance_metrics, g_pc, g_held, g_log>>
crud_vars   == <<items_table, item_cache, next_id, cr_pc, cr_call, cr_item,
                 crud_calls, crud_returns>>
auth_vars   == <<tokens, auth_now, issued_at, revoked, auth_last, auth_calls>>
rest_vars   == <<probe_vars, gen_vars, crud_vars, auth_vars>>
core_vars   == <<engine_vars, unary_vars, batch_vars, client_vars, stat_vars, proxy_vars>>
not_probe_vars == <<core_vars, gen_vars, crud_vars, auth_vars>>
not_gen_vars   == <<core_vars, probe_vars, crud_vars, auth_vars>>
not_crud_vars  == <<core_vars, probe_vars, gen_vars, auth_vars>>
not_auth_vars  == <<core_vars, probe_vars, gen_vars, crud_vars>>
vars == <<core_vars, rest_vars>>

\* ------------------------------------------------------------ input domains
RequestIds == {"a", "b"}
\* "mean", "variance": listed by the registry and implemented natively;
\* "mode": implemented natively, not listed; "kmeans": not native.
Algorithms == {"mean", "variance", "mode", "kmeans"}
DataValues == {5}
TimeoutChoices == {0, 100}
\* wall-clock durations of one kernel call, in ms
Durations == {50, 5000}

RECURSIVE SeqsUpTo(_, _)
SeqsUpTo(S, n) ==
    IF n = 0 THEN {<<>>}
    ELSE LET shorter == SeqsUpTo(S, n - 1)
         IN shorter \cup {Append(s, x) : s \in {t \in shorter : Len(t) = n - 1}, x \in S}

Datas == SeqsUpTo(DataValues, MaxData)
EmptyParams == <<>>

Options == [prefer_rust : BOOLEAN, allow_python : BOOLEAN,
            timeout_ms : TimeoutChoices, include_metadata : {TRUE}]
\* `options` is an optional message field: absent, or present
GrpcOptions == {<<>>} \cup {<<o>> : o \in Options}
GrpcRequests == [request_id : RequestIds, algorithm : Algorithms, data : Datas,
                 params : {EmptyParams}, options : GrpcOptions]

BoolStr(b) == IF b THEN "true" ELSE "false"

\* ------------------------------------------------------- api/grpc_service.rs
\* prost's Default for the options message: false, false, 0, false
ProtoDefaultOptions ==
    [prefer_rust |-> FALSE, allow_python |-> FALSE, timeout_ms |-> 0,
     include_metadata |-> FALSE]

convert_grpc_to_internal_request(g) ==
    [request_id |-> g.request_id,
     algorithm  |-> g.algorithm,
     data       |-> g.data,
     params     |-> g.params,
     options    |-> IF g.options = <<>> THEN ProtoDefaultOptions ELSE g.options[1]]

\* ------------------------------------------------------------- core/stats.rs
Ok(impl, req, d) ==
    [ok |-> TRUE, err |-> <<>>, implementation |-> impl, execution_time_ms |-> d,
     algorithm |-> req.algorithm, data_size |-> Len(req.data),
     result |-> <<impl, req.algorithm, req.data>>]

Err(msg) ==
    [ok |-> FALSE, err |-> msg, implementation |-> "", execution_time_ms |-> 0,
     algorithm |-> "", data_size |-> 0, result |-> <<>>]

\* mutation: the match has lost its "variance" arm
RustKernelAlgorithms_NoVariance ==
    {"mean", "median", "std", "min", "max", "range", "correlation",
     "percentile", "mode", "skewness", "kurtosis", "q1", "q3", "iqr", "count",
     "summary"}

\* the arms of analyze_rust's match
RustKernelAlgorithms ==
    {"mean", "median", "std", "variance", "min", "max", "range", "correlation",
     "percentile", "mode", "skewness", "kurtosis", "q1", "q3", "iqr", "count",
     "summary"}

\* the error of the calculate_* function of an arm on non-empty data, <<>> if none
KernelError(algorithm, data) ==
    IF algorithm \in {"variance", "std", "summary"} /\ Len(data) < 2
        THEN <<"Need at least 2 data points for variance">>
    ELSE IF algorithm = "correlation" /\ Len(data) < 2
        THEN <<"Need at least 2 data points for autocorrelation">>
    ELSE IF algorithm = "skewness" /\ Len(data) < 3
        THEN <<"Need at least 3 data points for skewness">>
    ELSE IF algorithm = "kurtosis" /\ Len(data) < 4
        THEN <<"Need at least 4 data points for kurtosis">>
    ELSE <<>>

analyze_rust(req, d) ==
    IF Len(req.data) = 0 THEN Err(<<"Empty data">>)
    ELSE IF req.algorithm \notin RustKernelAlgorithms
        THEN Err(<<"Algorithm", req.algorithm, "not implemented in Rust">>)
    ELSE IF KernelError(req.algorithm, req.data) # <<>>
        THEN Err(KernelError(req.algorithm, req.data))
    ELSE Ok("rust", req, d)

\* a calculate_* function was entered
RustKernelRan(req) ==
    Len(req.data) > 0 /\ req.algorithm \in RustKernelAlgorithms

\* ---------------------------------------------- python_bridge/dispatcher.rs
\* The interpreter's answer is the environment's: pyok is drawn by the caller.
analyze_python(req, pyok, d) ==
    IF pyok THEN Ok("python", req, d) ELSE Err(<<"Python error">>)

\* what the Python module lists when the bridge is compiled in
PythonCatalog == {"mean", "kmeans"}

\* -------------------------------------------------------- core/dispatcher.rs
RegistryRust ==
    {"mean", "median", "std", "variance", "min", "max", "range", "percentile",
     "correlation", "summary"}

\* implementations get_supported_algorithms() lists under `name`
RegistryImplementations(name) ==
    (IF name \in RegistryRust THEN {"rust"} ELSE {})
        \cup (IF python_bridge /\ name \in python_catalog THEN {"python"} ELSE {})

is_algorithm_supported(algorithm, implementation) ==
    implementation \in RegistryImplementations(algorithm)

NoImplementation(req) ==
    <<"No implementation available for algorithm", req.algorithm,
      "Rust preferred", BoolStr(req.options.prefer_rust),
      "Python allowed", BoolStr(req.options.allow_python)>>

Attempt(item, impl, ran, r, d) ==
    [item |-> item, impl |-> impl, ran |-> ran, ok |-> r.ok, err |-> r.err,
     elapsed |-> d]

\* step 1 of analyze: the Rust implementation, when preferred
TriesRust(req) == req.options.prefer_rust

\* mutation: the bridge is switched off by its first failure
TriesPython_UntilFailure(req) ==
    /\ python_bridge
    /\ req.options.allow_python
    /\ ~\E k \in 1..Len(b_attempts) :
          b_attempts[k].impl = "python" /\ ~b_attempts[k].ok

\* step 2 of analyze: the Python implementation, when compiled in and allowed
TriesPython(req) == python_bridge /\ req.options.allow_python

\* analyze up to its first suspension: `next` is "return" with `res`, or
\* "python" when the call is handed to spawn_blocking; `tried` are the kernel
\* calls completed so far.
DispatchStart(item, req, d) ==
    LET r == analyze_rust(req, d)
        tried == IF TriesRust(req)
                 THEN <<Attempt(item, "rust", RustKernelRan(req), r,
                                IF r.ok THEN d ELSE 0)>>
                 ELSE <<>>
    IN  IF TriesRust(req) /\ r.ok
            THEN [next |-> "return", res |-> r, tried |-> tried]
        ELSE IF TriesPython(req)
            THEN [next |-> "python", res |-> Err(<<>>), tried |-> tried]
        ELSE [next |-> "return", res |-> Err(NoImplementation(req)), tried |-> tried]

\* mutation: the Ok arm of the Python match is lost
DispatchAfterPython_IgnoresOk(req, py) == Err(NoImplementation(req))

\* analyze from the completion of analyze_python on
DispatchAfterPython(req, py) ==
    IF py.ok THEN py ELSE Err(NoImplementation(req))

\* ------------------------------------------------------- api/grpc_service.rs
convert_internal_to_grpc_response(result, success, error_message) ==
    [request_id     |-> "",
     success        |-> success,
     error_message  |-> error_message,
     result_json    |-> result.result,
     has_metadata   |-> TRUE,
     implementation |-> result.implementation,
     execution_time_ms |-> result.execution_time_ms,
     algorithm      |-> result.algorithm,
     data_size      |-> result.data_size]

FailureResponse(request_id, error_message) ==
    [request_id     |-> request_id,
     success        |-> FALSE,
     error_message  |-> error_message,
     result_json    |-> <<>>,
     has_metadata   |-> FALSE,
     implementation |-> "",
     execution_time_ms |-> 0,
     algorithm      |-> "",
     data_size      |-> 0]

\* mutation: the Err arm returns Err(Status::internal(..))
AnalyzeErrReply_AsStatus(e) ==
    [status |-> "INTERNAL", body |-> FailureResponse("", e)]

\* the handler's return value for the Err arm of the match in analyze
AnalyzeErrReply(e) ==
    [status |-> "OK", body |-> FailureResponse("", e)]

\* the handler's return value for a dispatcher result
AnalyzeReply(res) ==
    IF res.ok
    THEN [status |-> "OK", body |-> convert_internal_to_grpc_response(res, TRUE, <<>>)]
    ELSE AnalyzeErrReply(res.err)

\* ---- unary Analyze
Analyze(g, d) ==
    /\ u_pc \in {"idle", "done"}
    /\ LET req == convert_grpc_to_internal_request(g)
           s   == DispatchStart(1, req, d)
       IN  /\ u_req' = <<g>>
           /\ u_attempts' = s.tried
           /\ IF s.next = "return"
              THEN /\ u_pc' = "done"
                   /\ u_result' = <<s.res>>
                   /\ u_reply' = <<AnalyzeReply(s.res)>>
              ELSE /\ u_pc' = "python"
                   /\ u_result' = <<>>
                   /\ u_reply' = <<>>
    /\ UNCHANGED <<engine_vars, batch_vars, client_vars, stat_vars,
                   proxy_vars, rest_vars>>

AnalyzePythonDone(pyok, d) ==
    /\ u_pc = "python"
    /\ LET req == convert_grpc_to_internal_request(u_req[1])
           py  == analyze_python(req, pyok, d)
           res == DispatchAfterPython(req, py)
       IN  /\ u_attempts' = Append(u_attempts, Attempt(1, "python", TRUE, py, d))
           /\ u_result' = <<res>>
           /\ u_reply' = <<AnalyzeReply(res)>>
    /\ u_pc' = "done"
    /\ UNCHANGED <<u_req, engine_vars, batch_vars, client_vars, stat_vars,
                   proxy_vars, rest_vars>>

\* ---- BatchAnalyze (server streaming)
\* batches are drawn from the requests for "mean" (succeeds natively) and
\* "variance" (fails natively) on one data point, with timeout_ms unset
\* (options absent, or present with at least one implementation enabled)
BatchOptions ==
    {<<>>} \cup {<<o>> : o \in {x \in Options : /\ x.timeout_ms = 0
                                                /\ x.prefer_rust \/ x.allow_python}}
BatchItems ==
    {g \in GrpcRequests : /\ g.data = <<5>>
                          /\ g.algorithm \in {"mean", "variance"}
                          /\ g.options \in BatchOptions}
BatchDurations == {50}
Batches == SeqsUpTo(BatchItems, MaxBatch)

\* mutation: the batch keeps running after the response body is dropped
StreamPolled_AfterDrop == stream_state \in {"OPEN", "CANCELLED"}

\* The handler returns the try_stream! generator as the response body: its
\* code runs only while the transport polls it, and a dropped body is never
\* polled again.
StreamPolled == stream_state = "OPEN"

\* mutation: a failed item is logged and yields nothing
BatchYields_DropsFailed(g, res) ==
    IF res.ok
    THEN <<convert_internal_to_grpc_response(res, TRUE, <<>>)>>
    ELSE <<>>

\* the messages one iteration of the for loop yields for request g, given the
\* dispatcher's result (convert_grpc_to_internal_request never returns Err,
\* so the "Request conversion error" arm is not reachable)
BatchYields(g, res) ==
    IF res.ok
    THEN <<convert_internal_to_grpc_response(res, TRUE, <<>>)>>
    ELSE <<FailureResponse(g.request_id, res.err)>>

Slotted(i, msgs) == [k \in 1..Len(msgs) |-> [slot |-> i, resp |-> msgs[k]]]

BatchAnalyze(reqs) ==
    /\ stream_state = "NONE"
    /\ stream_state' = "OPEN"
    /\ requests' = reqs
    /\ idx' = 1
    /\ UNCHANGED <<b_pc, b_attempts, emitted, cancel_at, engine_vars, unary_vars, client_vars, stat_vars,
                   proxy_vars, rest_vars>>

\* the transport polls the stream: the loop takes requests[idx] and runs the
\* dispatcher up to its first suspension
BatchPoll(d) ==
    /\ StreamPolled
    /\ b_pc = "idle"
    /\ idx <= Len(requests)
    /\ LET g   == requests[idx]
           req == convert_grpc_to_internal_request(g)
           s   == DispatchStart(idx, req, d)
       IN  /\ b_attempts' = b_attempts \o s.tried
           /\ IF s.next = "return"
              THEN /\ emitted' = emitted \o Slotted(idx, BatchYields(g, s.res))
                   /\ idx' = idx + 1
                   /\ b_pc' = "idle"
              ELSE /\ b_pc' = "python"
                   /\ UNCHANGED <<emitted, idx>>
    /\ UNCHANGED <<stream_state, requests, cancel_at, engine_vars, unary_vars, client_vars, stat_vars,
                   proxy_vars, rest_vars>>

\* the blocking task of analyze_python completes and the stream is polled
BatchPythonDone(pyok, d) ==
    /\ StreamPolled
    /\ b_pc = "python"
    /\ LET g   == requests[idx]
           req == convert_grpc_to_internal_request(g)
           py  == analyze_python(req, pyok, d)
           res == DispatchAfterPython(req, py)
       IN  /\ b_attempts' = Append(b_attempts, Attempt(idx, "python", TRUE, py, d))
           /\ emitted' = emitted \o Slotted(idx, BatchYields(g, res))
    /\ idx' = idx + 1
    /\ b_pc' = "idle"
    /\ UNCHANGED <<stream_state, requests, cancel_at, engine_vars, unary_vars, client_vars, stat_vars,
                   proxy_vars, rest_vars>>

\* the loop is over: the generator returns and the stream ends
BatchEnd ==
    /\ StreamPolled
    /\ b_pc = "idle"
    /\ idx > Len(requests)
    /\ stream_state' = "CLOSED"
    /\ UNCHANGED <<requests, idx, b_pc, b_attempts, emitted, cancel_at,
                   engine_vars, unary_vars, client_vars, stat_vars,
                   proxy_vars, rest_vars>>

\* client close or deadline: the transport drops the response body
BatchCancel ==
    /\ stream_state = "OPEN"
    /\ stream_state' = "CANCELLED"
    /\ cancel_at' = <<[idx |-> idx, emitted |-> emitted]>>
    /\ UNCHANGED <<requests, idx, b_pc, b_attempts, emitted, engine_vars, unary_vars, client_vars, stat_vars,
                   proxy_vars, rest_vars>>

\* a spawn_blocking task cannot be aborted: the Python call that was in
\* flight when the stream was dropped runs to its end; its result is dropped
BatchOrphanPythonDone(pyok, d) ==
    /\ stream_state = "CANCELLED"
    /\ b_pc = "python"
    /\ LET req == convert_grpc_to_internal_request(requests[idx])
           py  == analyze_python(req, pyok, d)
       IN  b_attempts' = Append(b_attempts, Attempt(idx, "python", TRUE, py, d))
    /\ b_pc' = "idle"
    /\ UNCHANGED <<stream_state, requests, idx, emitted, cancel_at,
                   engine_vars, unary_vars, client_vars, stat_vars,
                   proxy_vars, rest_vars>>

\* ------------------------------------------ infra/analytics_client/mod.rs
Callers == 1..MaxCallers

\* how client.analyze(...) under tokio::time::timeout can end: a reply
\* (success or failure envelope), a Status with code Unavailable, a Status
\* with another code, or the deadline
RpcOutcomes == {"reply", "unavailable", "status", "timeout"}

\* `e.code() == tonic::Code::Unavailable`: the error arm spawns the task that
\* clears the cached client
SpawnsInvalidation(o) == o = "unavailable"

\* analyze is called: its first statement is self.get_client().await
ClientAnalyze(p) ==
    /\ c_pc[p] = "idle"
    /\ calls < MaxClientCalls
    /\ calls' = calls + 1
    /\ c_pc' = [c_pc EXCEPT ![p] = "get_client"]
    /\ c_stale' = [c_stale EXCEPT ![p] = reported]
    /\ c_chan' = [c_chan EXCEPT ![p] = 0]
    /\ c_sent' = [c_sent EXCEPT ![p] = 0]
    /\ UNCHANGED <<cache, opened, inv_pending, c_outcome, reported,
                   engine_vars, unary_vars, batch_vars, stat_vars,
                   proxy_vars, rest_vars>>

\* get_client, under the read lock: a cached client is cloned and returned
GetClientCached(p) ==
    /\ c_pc[p] = "get_client"
    /\ cache # <<>>
    /\ c_chan' = [c_chan EXCEPT ![p] = cache[1]]
    /\ c_pc' = [c_pc EXCEPT ![p] = "rpc"]
    /\ c_sent' = [c_sent EXCEPT ![p] = @ + 1]
    /\ UNCHANGED <<cache, opened, inv_pending, c_outcome, c_stale, reported, calls,
                   engine_vars, unary_vars, batch_vars, stat_vars,
                   proxy_vars, rest_vars>>

\* get_client, under the read lock: nothing cached; the lock is released
\* before connecting
GetClientMiss(p) ==
    /\ c_pc[p] = "get_client"
    /\ cache = <<>>
    /\ c_pc' = [c_pc EXCEPT ![p] = "connect"]
    /\ UNCHANGED <<cache, opened, inv_pending, c_chan, c_outcome, c_stale, reported,
                   calls, c_sent, engine_vars, unary_vars, batch_vars, stat_vars,
                   proxy_vars, rest_vars>>

\* endpoint.connect().await succeeds
ConnectOk(p) ==
    /\ c_pc[p] = "connect"
    /\ opened' = opened + 1
    /\ c_chan' = [c_chan EXCEPT ![p] = opened + 1]
    /\ c_pc' = [c_pc EXCEPT ![p] = "cache_write"]
    /\ UNCHANGED <<cache, inv_pending, c_outcome, c_stale, reported, calls, c_sent,
                   engine_vars, unary_vars, batch_vars, stat_vars,
                   proxy_vars, rest_vars>>

\* endpoint.connect().await fails: get_client and analyze return the error
ConnectFail(p) ==
    /\ c_pc[p] = "connect"
    /\ c_pc' = [c_pc EXCEPT ![p] = "idle"]
    /\ c_outcome' = [c_outcome EXCEPT ![p] = "connect_error"]
    /\ UNCHANGED <<cache, opened, inv_pending, c_chan, c_stale, reported, calls, c_sent,
                   engine_vars, unary_vars, batch_vars, stat_vars,
                   proxy_vars, rest_vars>>

\* get_client, under the write lock: the new client is cached
CacheWrite(p) ==
    /\ c_pc[p] = "cache_write"
    /\ cache' = <<c_chan[p]>>
    /\ c_pc' = [c_pc EXCEPT ![p] = "rpc"]
    /\ c_sent' = [c_sent EXCEPT ![p] = @ + 1]
    /\ UNCHANGED <<opened, inv_pending, c_chan, c_outcome, c_stale, reported, calls,
                   engine_vars, unary_vars, batch_vars, stat_vars,
                   proxy_vars, rest_vars>>

\* mutation: a failed RPC is attempted again from get_client
AfterRpc_Retries(o) ==
    IF o \in {"unavailable", "status", "timeout"} THEN "get_client" ELSE "idle"

\* where analyze continues once the RPC has ended: both map_err arms are
\* followed by `?`, and a reply is returned as it is
AfterRpc(o) == "idle"

\* the RPC ends and analyze returns to its caller
RpcReturn(p, o) ==
    /\ c_pc[p] = "rpc"
    /\ c_outcome' = [c_outcome EXCEPT ![p] = o]
    /\ c_pc' = [c_pc EXCEPT ![p] = AfterRpc(o)]
    /\ inv_pending' = IF SpawnsInvalidation(o) THEN inv_pending + 1 ELSE inv_pending
    /\ reported' = IF o = "unavailable" THEN reported \cup {c_chan[p]} ELSE reported
    /\ UNCHANGED <<cache, opened, c_chan, c_stale, calls, c_sent,
                   engine_vars, unary_vars, batch_vars, stat_vars,
                   proxy_vars, rest_vars>>

\* a task spawned by the error arm takes the write lock and clears the cache
RunInvalidation ==
    /\ inv_pending > 0
    /\ inv_pending' = inv_pending - 1
    /\ cache' = <<>>
    /\ UNCHANGED <<opened, c_pc, c_chan, c_outcome, c_stale, reported, calls,
                   c_sent, engine_vars, unary_vars, batch_vars, stat_vars,
                   proxy_vars, rest_vars>>

disconnect ==
    /\ cache # <<>>
    /\ cache' = <<>>
    /\ UNCHANGED <<opened, inv_pending, c_pc, c_chan, c_outcome, c_stale, reported,
                   calls, c_sent, engine_vars, unary_vars, batch_vars, stat_vars,
                   proxy_vars, rest_vars>>

\* ------------------------------------------------- slices/mvp_stat/types.rs
\* f64 values: a finite number, NaN, or an infinity
Finite(n) == [class |-> "finite", n |-> n]
NaN == [class |-> "nan", n |-> 0]
Infinity == [class |-> "inf", n |-> 0]
is_nan(v) == v.class = "nan"
is_infinite(v) == v.class = "inf"
InRange(lo, v, hi) == v.class = "finite" /\ lo <= v.n /\ v.n <= hi

StatError(kind, message) == [kind |-> kind, message |-> message]

\* the #[error(..)] text of a StatError, as `{}` prints it
StatErrorText(e) ==
    IF e.kind = "Validation" THEN <<"validation failed">> \o e.message
    ELSE IF e.kind = "EmptyData" THEN <<"data is empty or invalid">>
    ELSE IF e.kind = "InvalidDistribution" THEN <<"invalid distribution">> \o e.message
    ELSE IF e.kind = "InvalidPercentile" THEN <<"invalid percentile">> \o e.message
    ELSE IF e.kind = "AnalyticsEngine" THEN <<"Analytics Engine error">> \o e.message
    ELSE IF e.kind = "Grpc" THEN <<"gRPC communication error">> \o e.message
    ELSE <<"internal error">> \o e.message

\* GenerateRandomDataRequest::validate: <<>> for Ok(()), <<e>> for Err(e).
\* Requests here name a count and leave min_value and max_value out, so the
\* min >= max arm is never taken.
validate_generate(cfg) ==
    IF cfg.count = 0 \/ cfg.count > MaxCount
        THEN <<StatError("Validation", <<"count must be between 1 and 1,000,000">>)>>
    ELSE IF cfg.distribution # <<>>
            /\ cfg.distribution[1] \notin {"normal", "uniform", "exponential"}
        THEN <<StatError("InvalidDistribution", cfg.distribution)>>
    ELSE <<>>

\* CalculateStatisticsRequest::validate: <<>> for Ok(()), <<e>> for Err(e).
\* The arm for more than 10,000,000 data points is out of reach of the data
\* modelled. The values of `data` are not inspected.
validate_calculate(req) ==
    IF Len(req.data) = 0 THEN <<StatError("EmptyData", <<>>)>>
    ELSE IF \E k \in 1..Len(req.percentiles) :
                ~InRange(0, req.percentiles[k], 100)
        THEN <<StatError("InvalidPercentile", <<>>)>>
    ELSE <<>>

get_default_statistics ==
    <<"mean", "median", "mode", "std", "variance", "min", "max", "range",
      "skewness", "kurtosis", "q1", "q3", "iqr">>

\* ---- inputs of the statistics handler
StatNames == {"mean", "variance", "bogus"}
StatisticsLists == SeqsUpTo(StatNames, MaxStats)
StatDatas ==
    {<<>>, <<Finite(5)>>, <<Finite(5), Finite(7)>>, <<Finite(5), NaN>>,
     <<Infinity, Finite(5)>>}
PercentileLists == {<<>>, <<Finite(150)>>}
StatsConfigs ==
    [data : StatDatas, statistics : StatisticsLists, percentiles : PercentileLists]
DataConfigs ==
    [count : {0, 2, PreviewLen + 1}, seed : {<<>>, <<42>>},
     distribution : {<<>>, <<"bogus">>}]
\* the seed SeedGenerator::next_seed returns
ClockSeeds == {1001}
StatisticsRequests ==
    [kind : {"CalculateStats"}, stats_config : StatsConfigs]
        \cup [kind : {"Comprehensive"}, data_config : DataConfigs,
              stats_config : {c \in StatsConfigs : Len(c.data) <= 1}]

\* ----------------------------------------------- slices/mvp_stat/service.rs
\* mutation: the generator draws from one StdRng it keeps between calls
seed_from_u64_Kept(seed) == seed + Len(g_log)

\* StdRng::seed_from_u64(seed): the state of the rng a call starts from
seed_from_u64(seed) == seed

\* DefaultRandomDataGenerator::generate_uniform over [0, 100): `count` samples
\* of a StdRng seeded with `seed`; the same seed gives the same sequence
generate_uniform(count, seed) ==
    [i \in 1..count |-> Finite((seed_from_u64(seed) * 7 + i * 13) % 100)]

\* generate_normal with mean 0 and std_dev 1
generate_normal(count, seed) ==
    [i \in 1..count |-> Finite(((seed_from_u64(seed) * 5 + i * 11) % 7) - 3)]

\* generate_exponential with lambda 1
generate_exponential(count, seed) ==
    [i \in 1..count |-> Finite((seed_from_u64(seed) * 3 + i * 17) % 9)]

\* `req.distribution.as_deref().unwrap_or("uniform")`
distribution_of(cfg) ==
    IF cfg.distribution = <<>> THEN "uniform" ELSE cfg.distribution[1]

\* the match on the distribution; min_value and max_value are left out
generate_by_distribution(distribution, count, seed) ==
    IF distribution = "normal" THEN generate_normal(count, seed)
    ELSE IF distribution = "exponential" THEN generate_exponential(count, seed)
    ELSE generate_uniform(count, seed)

\* generate_random_data: [ok, err] or [ok, data, count, seed]; `clock` is the
\* seed SeedGenerator derives from the time when the request names none
generate_random_data(cfg, clock) ==
    IF validate_generate(cfg) # <<>>
    THEN [ok |-> FALSE, err |-> validate_generate(cfg)[1]]
    ELSE LET seed == IF cfg.seed = <<>> THEN clock ELSE cfg.seed[1]
         IN  [ok |-> TRUE,
              data |-> generate_by_distribution(distribution_of(cfg), cfg.count, seed),
              count |-> cfg.count, seed |-> seed]

\* mutation: the statistics request keeps the data it arrived with
stats_req_with_data_Kept(stats_config, data_response) == stats_config

\* comprehensive_analysis, step 2: stats_req.data = data_response.data.clone()
stats_req_with_data(stats_config, data_response) ==
    [stats_config EXCEPT !.data = data_response.data]

\* the list calculate_statistics iterates over
effective_statistics(req) ==
    IF req.statistics = <<>> THEN get_default_statistics ELSE req.statistics

\* mutation: the list is walked from its end
statistic_at_Reversed(statistics, i) == statistics[Len(statistics) + 1 - i]

\* the stat_type of the i-th iteration of `for stat_type in &statistics`
statistic_at(statistics, i) == statistics[i]

\* results.insert(key, value)
results_insert(results, key, value) ==
    [k \in DOMAIN results \cup {key} |-> IF k = key THEN value ELSE results[k]]

\* the get_value closure of build_statistics_result: 0.0 for a missing key
get_value(results, key) ==
    IF key \in DOMAIN results THEN results[key] ELSE <<"0.0">>

build_statistics_result(results, data) ==
    [count    |-> Len(data),
     mean     |-> get_value(results, "mean"),
     variance |-> get_value(results, "variance")]

\* DataSummary as comprehensive_analysis builds it
data_summary(data_response) ==
    [count   |-> data_response.count,
     seed    |-> data_response.seed,
     preview |-> SubSeq(data_response.data, 1,
                        IF Len(data_response.data) < PreviewLen
                        THEN Len(data_response.data) ELSE PreviewLen)]

\* the AnalysisRequest call_analytics_engine builds (the timestamp in the
\* request_id is left out)
stat_analysis_request(algorithm, data) ==
    [request_id |-> <<"stat", algorithm>>,
     algorithm  |-> algorithm,
     data       |-> data,
     params     |-> EmptyParams,
     options    |-> <<[prefer_rust |-> TRUE, allow_python |-> TRUE,
                      timeout_ms |-> 30000, include_metadata |-> TRUE]>>]

\* the deadline call_analytics_engine puts on client.analyze(request): the
\* channel is built without a timeout and the call is awaited bare
call_deadline(request) == <<>>

\* what the Engine's Analyze handler answers to request g
EngineAnswer(g, pyok, d) ==
    LET req == convert_grpc_to_internal_request(g)
        s   == DispatchStart(1, req, d)
    IN  IF s.next = "return" THEN AnalyzeReply(s.res)
        ELSE AnalyzeReply(DispatchAfterPython(req, analyze_python(req, pyok, d)))

\* ------------------------------------------------------- grpc_layer/mod.rs
\* the prefix the statistics handler puts before the error of a request type
StatFailurePrefix(kind) ==
    IF kind = "Comprehensive" THEN <<"comprehensive analysis failed">>
    ELSE <<"calculate statistics failed">>

\* mutation: a failed composition is answered with what it had so far
stat_failure_response_Partial(kind, e) ==
    [status |-> "OK", success |-> TRUE, error |-> <<>>,
     response_type |-> <<[type |-> "Partial"]>>]

\* the Err(e) arms of the statistics handler
stat_failure_response(kind, e) ==
    [status |-> "OK", success |-> FALSE,
     error |-> StatFailurePrefix(kind) \o StatErrorText(e),
     response_type |-> <<>>]

\* the Ok(internal_resp) arms of the statistics handler
stat_success_response(kind, gen, stats_req, results) ==
    [status |-> "OK", success |-> TRUE, error |-> <<>>,
     response_type |->
        IF kind = "Comprehensive"
        THEN <<[type |-> "ComprehensiveResponse",
                data_summary |-> data_summary(gen[1]),
                statistics |-> build_statistics_result(results, stats_req.data)]>>
        ELSE <<[type |-> "StatsResponse",
                results |-> build_statistics_result(results, stats_req.data)]>>]

\* the service returns Err(e) and the handler answers
StatFail(kind, e) ==
    /\ s_pc' = "done"
    /\ s_error' = <<e>>
    /\ s_reply' = <<stat_failure_response(kind, e)>>

\* the handler is called; it runs to the first connect().await of the
\* composition, or to its end when generation or validation fails
Statistics(r, clock) ==
    /\ s_pc = "idle"
    /\ s_req' = <<r>>
    /\ LET gen == IF r.kind = "Comprehensive"
                  THEN generate_random_data(r.data_config, clock)
                  ELSE [ok |-> TRUE]
           req == IF r.kind = "Comprehensive" /\ gen.ok
                  THEN stats_req_with_data(r.stats_config, gen)
                  ELSE r.stats_config
       IN  IF ~gen.ok
           THEN /\ StatFail(r.kind, gen.err)
                /\ UNCHANGED <<s_gen, s_stats>>
           ELSE /\ s_gen' = IF r.kind = "Comprehensive" THEN <<gen>> ELSE <<>>
                /\ s_stats' = <<req>>
                /\ IF validate_calculate(req) # <<>>
                   THEN StatFail(r.kind, validate_calculate(req)[1])
                   ELSE /\ s_pc' = "connect"
                        /\ UNCHANGED <<s_error, s_reply>>
    /\ UNCHANGED <<s_i, s_results, s_calls, s_opened,
                   engine_vars, unary_vars, batch_vars, client_vars,
                   proxy_vars, rest_vars>>

\* get_or_create_channel: self.channel is None, connect().await succeeds; the
\* channel is returned without being stored, and the request is sent on it
StatConnectOk ==
    /\ s_pc = "connect"
    /\ s_opened' = s_opened + 1
    /\ LET g == stat_analysis_request(
                    statistic_at(effective_statistics(s_stats[1]), s_i),
                    s_stats[1].data)
       IN  s_calls' = Append(s_calls, [request |-> g, channel |-> s_opened + 1,
                                       deadline |-> call_deadline(g)])
    /\ s_pc' = "rpc"
    /\ UNCHANGED <<s_req, s_gen, s_stats, s_i, s_results, s_error, s_reply,
                   engine_vars, unary_vars, batch_vars, client_vars,
                   proxy_vars, rest_vars>>

\* get_or_create_channel: connect().await fails
StatConnectFail ==
    /\ s_pc = "connect"
    /\ StatFail(s_req[1].kind,
                StatError("Grpc", <<"connecting to Analytics Engine failed">>))
    /\ UNCHANGED <<s_req, s_gen, s_stats, s_i, s_results, s_calls, s_opened,
                   engine_vars, unary_vars, batch_vars, client_vars,
                   proxy_vars, rest_vars>>

\* client.analyze(request).await returns a tonic Status
StatRpcStatus ==
    /\ s_pc = "rpc"
    /\ StatFail(s_req[1].kind,
                StatError("Grpc", <<"Analytics Engine call failed">>))
    /\ UNCHANGED <<s_req, s_gen, s_stats, s_i, s_results, s_calls, s_opened,
                   engine_vars, unary_vars, batch_vars, client_vars,
                   proxy_vars, rest_vars>>

\* client.analyze(request).await returns the Engine's response; the loop
\* either ends the composition or goes on to the next statistic
StatRpcReply(pyok, d) ==
    /\ s_pc = "rpc"
    /\ LET call    == s_calls[Len(s_calls)]
           body    == EngineAnswer(call.request, pyok, d).body
           list    == effective_statistics(s_stats[1])
           results == results_insert(s_results, call.request.algorithm,
                                     body.result_json)
       IN  IF ~body.success
           THEN /\ StatFail(s_req[1].kind,
                            StatError("AnalyticsEngine", body.error_message))
                /\ UNCHANGED <<s_i, s_results>>
           ELSE /\ s_results' = results
                /\ s_error' = s_error
                /\ IF s_i = Len(list)
                   THEN /\ s_pc' = "done"
                        /\ s_reply' = <<stat_success_response(
                                           s_req[1].kind, s_gen, s_stats[1], results)>>
                        /\ s_i' = s_i
                   ELSE /\ s_pc' = "connect"
                        /\ s_i' = s_i + 1
                        /\ s_reply' = s_reply
    /\ UNCHANGED <<s_req, s_gen, s_stats, s_calls, s_opened,
                   engine_vars, unary_vars, batch_vars, client_vars,
                   proxy_vars, rest_vars>>

\* ---- analytics_proxy
ProxyRequests == [algorithm : Algorithms, data : Datas]

\* the AnalysisRequest analytics_proxy builds (request_id is a fresh uuid)
proxy_analysis_request(r) ==
    [request_id |-> "uuid",
     algorithm  |-> r.algorithm,
     data       |-> r.data,
     params     |-> EmptyParams,
     options    |-> <<[prefer_rust |-> TRUE, allow_python |-> TRUE,
                      timeout_ms |-> 30000, include_metadata |-> TRUE]>>]

\* how AnalyticsEngineClient::analyze ends without a response
ClientFailures == {"connect_error", "unavailable", "status", "timeout"}

\* the anyhow error AnalyticsEngineClient::analyze returns for a failure
ClientErrorText(f) ==
    IF f = "connect_error" THEN <<"connecting to Analytics Engine failed">>
    ELSE IF f = "timeout" THEN <<"Analytics request timed out">>
    ELSE <<"Analytics analysis failed", f>>

\* the three arms of the match in analytics_proxy; `res` is what
\* analytics_client.analyze returned
analytics_proxy_reply(res) ==
    IF res.ok /\ res.response.success
    THEN [status |-> "OK", message |-> <<>>,
          body |-> <<[result |-> res.response.result_json, success |-> TRUE,
                      error |-> <<>>]>>]
    ELSE IF res.ok
    THEN [status |-> "INTERNAL",
          message |-> <<"Analytics analysis failed">> \o res.response.error_message,
          body |-> <<>>]
    ELSE [status |-> "UNAVAILABLE",
          message |-> <<"Analytics Engine unavailable">> \o res.err,
          body |-> <<>>]

\* the handler is called and awaits analytics_client.analyze(analysis_request)
AnalyticsProxy(r) ==
    /\ px_pc \in {"idle", "done"}
    /\ px_req' = <<r>>
    /\ px_pc' = "analyze"
    /\ px_engine' = <<>>
    /\ px_reply' = <<>>
    /\ UNCHANGED <<engine_vars, unary_vars, batch_vars, client_vars, stat_vars, rest_vars>>

\* the client returns Ok(response): the Engine's answer to the request
ProxyAnalyzeOk(pyok, d) ==
    /\ px_pc = "analyze"
    /\ LET res == [ok |-> TRUE, err |-> <<>>,
                   response |-> EngineAnswer(proxy_analysis_request(px_req[1]),
                                             pyok, d).body]
       IN  /\ px_engine' = <<res>>
           /\ px_reply' = <<analytics_proxy_reply(res)>>
    /\ px_pc' = "done"
    /\ UNCHANGED <<px_req, engine_vars, unary_vars, batch_vars, client_vars,
                   stat_vars, rest_vars>>

\* the client returns Err(e): connection, transport status or timeout
ProxyAnalyzeErr(f) ==
    /\ px_pc = "analyze"
    /\ LET res == [ok |-> FALSE, err |-> ClientErrorText(f), response |-> <<>>]
       IN  /\ px_engine' = <<res>>
           /\ px_reply' = <<analytics_proxy_reply(res)>>
    /\ px_pc' = "done"
    /\ UNCHANGED <<px_req, engine_vars, unary_vars, batch_vars, client_vars,
                   stat_vars, rest_vars>>

\* ------------------------------------- api/grpc_service.rs, health_check
\* is_python_available(): the import is attempted under the GIL
is_python_available == py_importable

\* capabilities["python"] as health_check fills it
PythonCapability ==
    IF ~python_bridge THEN "disabled"
    ELSE IF is_python_available THEN "available" ELSE "unavailable"

\* health_check: with the bridge compiled in, the import is attempted for
\* this request
HealthCheck ==
    /\ Len(h_seen) < MaxHealthChecks
    /\ h_seen' = Append(h_seen, PythonCapability)
    /\ probes' = IF python_bridge THEN probes + 1 ELSE probes
    /\ UNCHANGED <<py_importable, not_probe_vars>>

\* the environment: the Python package is put on the module path while the
\* Engine runs
ModuleInstalled ==
    /\ ~py_importable
    /\ py_importable' = TRUE
    /\ UNCHANGED <<probes, h_seen, not_probe_vars>>

\* execute_python_analysis imports the module first: the call can succeed
\* only where the import does
HealthAnalyzePythonDone(pyok, d) ==
    /\ pyok => py_importable
    /\ AnalyzePythonDone(pyok, d)

\* ------------------ slices/mvp_stat/service.rs, concurrent generation calls
\* the requests being served at the same time, on different worker threads
GenTasks == {"g1", "g2"}
GenConfigs ==
    [count : {1, 2}, seed : {<<>>, <<42>>},
     distribution : {<<>>, <<"normal">>, <<"exponential">>}]

\* generation calls started so far
GenStarted == Len(g_log) + Cardinality({p \in GenTasks : g_pc[p] = "generated"})

\* what generate_* leaves in the generator's map
metrics_after(distribution, count) ==
    <<[last_distribution |-> distribution, last_count |-> count]>>

\* generate_random_data up to the return of generate_*: the data is drawn
\* and the generator's map is updated under its mutex
GenerateData(p, cfg, clock) ==
    /\ g_pc[p] = "idle"
    /\ GenStarted < MaxGenCalls
    /\ LET r == generate_random_data(cfg, clock)
       IN  IF ~r.ok
           THEN /\ g_log' = Append(g_log, [ok |-> FALSE, err |-> r.err])
                /\ UNCHANGED <<performance_metrics, g_pc, g_held>>
           ELSE /\ performance_metrics' = metrics_after(distribution_of(cfg), cfg.count)
                /\ g_held' = [g_held EXCEPT ![p] =
                                <<[ok |-> TRUE, distribution |-> distribution_of(cfg),
                                   count |-> r.count, seed |-> r.seed, data |-> r.data]>>]
                /\ g_pc' = [g_pc EXCEPT ![p] = "generated"]
                /\ UNCHANGED g_log
    /\ UNCHANGED not_gen_vars

\* the rest of generate_random_data: get_performance_metrics() copies the map
\* as it is now into the response
GenerateDataReturn(p) ==
    /\ g_pc[p] = "generated"
    /\ g_log' = Append(g_log, [ok |-> TRUE,
                               distribution |-> g_held[p][1].distribution,
                               count |-> g_held[p][1].count,
                               seed |-> g_held[p][1].seed,
                               data |-> g_held[p][1].data,
                               metrics |-> performance_metrics[1]])
    /\ g_pc' = [g_pc EXCEPT ![p] = "idle"]
    /\ g_held' = [g_held EXCEPT ![p] = <<>>]
    /\ UNCHANGED <<performance_metrics, not_gen_vars>>

\* ---------------------------------------------- slices/mvp_crud/service.rs
Ids == 1..MaxItems
ItemNames == {"a", "b"}
\* the requests being served at the same time, on different worker threads
CrudTasks == {"t1", "t2"}

\* requests pass validate(); an update names a new name or a new value
CreateItemRequests == [name : ItemNames, description : {<<>>}, value : {1}]
UpdateItemRequests ==
    {[name |-> <<"b">>, value |-> <<>>], [name |-> <<>>, value |-> <<7>>]}
CrudCalls ==
    [op : {"create_item"}, id : {0}, req : CreateItemRequests]
        \cup [op : {"get_item", "delete_item"}, id : Ids, req : {<<>>}]
        \cup [op : {"update_item"}, id : Ids, req : UpdateItemRequests]

\* the parameters of INSERT and UPDATE: `description.as_deref().unwrap_or("")`
item_to_row(item) ==
    [name |-> item.name,
     description |-> IF item.description = <<>> THEN "" ELSE item.description[1],
     value |-> item.value]

\* row_to_item: a TEXT description comes back as Some(text)
row_to_item(id, row) ==
    [id |-> id, name |-> row.name, description |-> <<row.description>>,
     value |-> row.value]

\* SELECT * FROM items WHERE id = ?
find_by_id(id) ==
    IF items_table[id] = <<>> THEN <<>> ELSE <<row_to_item(id, items_table[id][1])>>

\* the ids of the rows SELECT * FROM items WHERE name = ? returns
find_by_name(name) ==
    {i \in Ids : items_table[i] # <<>> /\ items_table[i][1].name = name}

\* the column constraint `name TEXT NOT NULL UNIQUE` refuses the statement
UniqueViolation(id, name) == find_by_name(name) \ {id} # {}

\* Item::apply_update, timestamps left out
apply_update(item, req) ==
    [item EXCEPT !.name = IF req.name = <<>> THEN @ ELSE req.name[1],
                 !.value = IF req.value = <<>> THEN @ ELSE req.value[1]]

CrudError(kind, message) == [kind |-> kind, message |-> message]
CrudOk == CrudError("Ok", <<>>)

\* ids whose delete_item has returned success
DeletedIds == {r.id : r \in {x \in crud_returns : x.op = "delete_item" /\ x.kind = "Ok"}}

\* the call of task t returns `res` for item `id`
CrudReturn(t, id, res) ==
    /\ crud_returns' = crud_returns \cup
           {[op |-> cr_call[t][1].op, id |-> id, kind |-> res.kind,
             message |-> res.message, after_delete |-> cr_call[t][1].after_delete]}
    /\ cr_pc' = [cr_pc EXCEPT ![t] = "idle"]
    /\ cr_call' = [cr_call EXCEPT ![t] = <<>>]
    /\ cr_item' = [cr_item EXCEPT ![t] = <<>>]

\* the call goes on to its next store or cache access
CrudGoto(t, pc, item) ==
    /\ cr_pc' = [cr_pc EXCEPT ![t] = pc]
    /\ cr_item' = [cr_item EXCEPT ![t] = item]
    /\ UNCHANGED <<cr_call, crud_returns>>

\* ids whose row has been in the table: a client can have learnt them from a
\* create_item response or from list_items
ListedIds ==
    {i \in 1..next_id :
        /\ ~\E t \in CrudTasks :
                /\ cr_pc[t] \in {"create_find_by_name", "create_save"}
                /\ cr_call[t][1].id = i
        /\ ~\E r \in crud_returns :
                r.op = "create_item" /\ r.id = i /\ r.kind # "Ok"}

\* a call arrives, for a new item or for an id the caller has learnt;
\* create_item draws its Uuid
CrudCall(t, call) ==
    /\ cr_pc[t] = "idle"
    /\ crud_calls < MaxCrudCalls
    /\ call.op = "create_item" => next_id < MaxItems
    /\ call.op # "create_item" => call.id \in ListedIds
    /\ crud_calls' = crud_calls + 1
    /\ next_id' = IF call.op = "create_item" THEN next_id + 1 ELSE next_id
    /\ cr_call' = [cr_call EXCEPT ![t] =
            <<[op |-> call.op,
               id |-> IF call.op = "create_item" THEN next_id + 1 ELSE call.id,
               req |-> call.req,
               after_delete |-> call.id \in DeletedIds]>>]
    /\ cr_pc' = [cr_pc EXCEPT ![t] =
            IF call.op = "create_item" THEN "create_find_by_name"
            ELSE IF call.op = "get_item" THEN "get_cache"
            ELSE IF call.op = "update_item" THEN "update_find_by_id"
            ELSE "delete_find_by_id"]
    /\ UNCHANGED <<items_table, item_cache, cr_item, crud_returns, not_crud_vars>>

\* create_item: repository.find_by_name(&req.name)
CreateFindByName(t) ==
    /\ cr_pc[t] = "create_find_by_name"
    /\ LET c == cr_call[t][1]
       IN  IF find_by_name(c.req.name) # {}
           THEN CrudReturn(t, c.id, CrudError("ItemNameExists", <<c.req.name>>))
           ELSE CrudGoto(t, "create_save",
                         <<[id |-> c.id, name |-> c.req.name,
                            description |-> c.req.description, value |-> c.req.value]>>)
    /\ UNCHANGED <<items_table, item_cache, next_id, crud_calls, not_crud_vars>>

\* create_item: repository.save(&item), the INSERT
CreateSave(t) ==
    /\ cr_pc[t] = "create_save"
    /\ LET item == cr_item[t][1]
       IN  IF UniqueViolation(item.id, item.name)
           THEN /\ CrudReturn(t, item.id,
                       CrudError("Database", <<"save failed",
                                               "UNIQUE constraint failed: items.name">>))
                /\ UNCHANGED items_table
           ELSE /\ items_table' = [items_table EXCEPT ![item.id] = <<item_to_row(item)>>]
                /\ CrudGoto(t, "create_cache", cr_item[t])
    /\ UNCHANGED <<item_cache, next_id, crud_calls, not_crud_vars>>

\* create_item: cache.set_json and the return
CreateCache(t) ==
    /\ cr_pc[t] = "create_cache"
    /\ item_cache' = [item_cache EXCEPT ![cr_item[t][1].id] = cr_item[t]]
    /\ CrudReturn(t, cr_item[t][1].id, CrudOk)
    /\ UNCHANGED <<items_table, next_id, crud_calls, not_crud_vars>>

\* get_item: cache.get_json; a hit is returned
GetCache(t) ==
    /\ cr_pc[t] = "get_cache"
    /\ LET id == cr_call[t][1].id
       IN  IF item_cache[id] # <<>>
           THEN CrudReturn(t, id, CrudOk)
           ELSE CrudGoto(t, "get_find_by_id", <<>>)
    /\ UNCHANGED <<items_table, item_cache, next_id, crud_calls, not_crud_vars>>

\* get_item: repository.find_by_id
GetFindById(t) ==
    /\ cr_pc[t] = "get_find_by_id"
    /\ LET id == cr_call[t][1].id
       IN  IF find_by_id(id) = <<>>
           THEN CrudReturn(t, id, CrudError("ItemNotFound", <<>>))
           ELSE CrudGoto(t, "get_fill", find_by_id(id))
    /\ UNCHANGED <<items_table, item_cache, next_id, crud_calls, not_crud_vars>>

\* get_item: the item read is cached and returned
GetFill(t) ==
    /\ cr_pc[t] = "get_fill"
    /\ item_cache' = [item_cache EXCEPT ![cr_call[t][1].id] = cr_item[t]]
    /\ CrudReturn(t, cr_call[t][1].id, CrudOk)
    /\ UNCHANGED <<items_table, next_id, crud_calls, not_crud_vars>>

\* update_item: repository.find_by_id; with a new name the name is looked up
\* next, otherwise the update is applied to the item read
UpdateFindById(t) ==
    /\ cr_pc[t] = "update_find_by_id"
    /\ LET c == cr_call[t][1]
           found == find_by_id(c.id)
       IN  IF found = <<>>
           THEN CrudReturn(t, c.id, CrudError("ItemNotFound", <<>>))
           ELSE IF c.req.name # <<>> /\ c.req.name[1] # found[1].name
           THEN CrudGoto(t, "update_find_by_name", found)
           ELSE CrudGoto(t, "update_write", <<apply_update(found[1], c.req)>>)
    /\ UNCHANGED <<items_table, item_cache, next_id, crud_calls, not_crud_vars>>

\* update_item: repository.find_by_name(new_name)
UpdateFindByName(t) ==
    /\ cr_pc[t] = "update_find_by_name"
    /\ LET c == cr_call[t][1]
       IN  IF find_by_name(c.req.name[1]) # {}
           THEN CrudReturn(t, c.id, CrudError("ItemNameExists", c.req.name))
           ELSE CrudGoto(t, "update_write", <<apply_update(cr_item[t][1], c.req)>>)
    /\ UNCHANGED <<items_table, item_cache, next_id, crud_calls, not_crud_vars>>

\* update_item: repository.update(&item), the UPDATE of the whole row
UpdateWrite(t) ==
    /\ cr_pc[t] = "update_write"
    /\ LET item == cr_item[t][1]
       IN  IF items_table[item.id] = <<>>
           THEN /\ CrudReturn(t, item.id, CrudError("ItemNotFound", <<>>))
                /\ UNCHANGED items_table
           ELSE IF UniqueViolation(item.id, item.name)
           THEN /\ CrudReturn(t, item.id,
                       CrudError("Database", <<"update failed",
                                               "UNIQUE constraint failed: items.name">>))
                /\ UNCHANGED items_table
           ELSE /\ items_table' = [items_table EXCEPT ![item.id] = <<item_to_row(item)>>]
                /\ CrudGoto(t, "update_cache", cr_item[t])
    /\ UNCHANGED <<item_cache, next_id, crud_calls, not_crud_vars>>

\* update_item: cache.set_json and the return
UpdateCache(t) ==
    /\ cr_pc[t] = "update_cache"
    /\ item_cache' = [item_cache EXCEPT ![cr_item[t][1].id] = cr_item[t]]
    /\ CrudReturn(t, cr_item[t][1].id, CrudOk)
    /\ UNCHANGED <<items_table, next_id, crud_calls, not_crud_vars>>

\* delete_item: repository.find_by_id(id).is_none()
DeleteFindById(t) ==
    /\ cr_pc[t] = "delete_find_by_id"
    /\ LET id == cr_call[t][1].id
       IN  IF find_by_id(id) = <<>>
           THEN CrudReturn(t, id, CrudError("ItemNotFound", <<>>))
           ELSE CrudGoto(t, "delete_row", <<>>)
    /\ UNCHANGED <<items_table, item_cache, next_id, crud_calls, not_crud_vars>>

\* delete_item: repository.delete(id), the DELETE
DeleteRow(t) ==
    /\ cr_pc[t] = "delete_row"
    /\ LET id == cr_call[t][1].id
       IN  IF items_table[id] = <<>>
           THEN /\ CrudReturn(t, id, CrudError("Database", <<"delete failed">>))
                /\ UNCHANGED items_table
           ELSE /\ items_table' = [items_table EXCEPT ![id] = <<>>]
                /\ CrudGoto(t, "delete_cache", <<>>)
    /\ UNCHANGED <<item_cache, next_id, crud_calls, not_crud_vars>>

\* delete_item: cache.delete and the return
DeleteCache(t) ==
    /\ cr_pc[t] = "delete_cache"
    /\ item_cache' = [item_cache EXCEPT ![cr_call[t][1].id] = <<>>]
    /\ CrudReturn(t, cr_call[t][1].id, CrudOk)
    /\ UNCHANGED <<items_table, next_id, crud_calls, not_crud_vars>>

\* the table of a fresh database
EmptyStore ==
    /\ items_table = [i \in Ids |-> <<>>]
    /\ next_id = 0

\* the table of a file database that an earlier run left one item in; the
\* cache of the new process is empty
PersistedStore ==
    /\ items_table = [i \in Ids |->
            IF i = 1 THEN <<[name |-> "a", description |-> "", value |-> 1]>> ELSE <<>>]
    /\ next_id = 1

\* --------------------------------------------------- slices/auth/service.rs
\* the strings create_token returns, in the order it returns them
TokenIds == 1..MaxTokens
\* a string that is no token: create_token never returns it
UnknownToken == 0
TokenStrings == TokenIds \cup {UnknownToken}
Usernames == {"testuser", "nobody"}
Passwords == {"password123", "wrong"}
LoginRequests == [username : Usernames, password : Passwords]
\* hours the clock is seen to advance by between two calls: half the life of
\* a token
ClockStepHours == 12

\* MemoryUserRepository::new: the one user of the repository
Users == {[id |-> "user123", username |-> "testuser"]}

\* MemoryUserRepository::find_by_username
find_by_username(username) == {u \in Users : u.username = username}

\* MemoryUserRepository::verify_credentials
verify_credentials(username, password) ==
    find_by_username(username) # {} /\ password = "password123"

\* the UserSession create_token stores
new_session(user_id, now) ==
    [user_id |-> user_id, username |-> "testuser", created_at |-> now,
     expires_at |-> now + TokenTtlHours]

\* MemoryTokenRepository::get_session
get_session(token) == tokens[token]

\* mutation: revoke leaves the session in the map
revoke_Kept(token) == tokens

\* MemoryTokenRepository::revoke: tokens.remove(token)
revoke(token) == [tokens EXCEPT ![token] = <<>>]

\* validate_token's outcome at time `now`
validate_token(token, now) ==
    IF get_session(token) = <<>> THEN "InvalidToken"
    ELSE IF get_session(token)[1].expires_at < now THEN "TokenExpired"
    ELSE "Ok"

\* tokens handed out so far (Uuid::new_v4 never repeats)
TokensIssued == {t \in TokenIds : issued_at[t] # <<>>}

\* what a caller can present: a token some login returned, or another string
Presentable == TokensIssued \cup {UnknownToken}

\* authenticate: a rejected login returns before create_token
Authenticate(req) ==
    /\ auth_calls < MaxAuthCalls
    /\ auth_calls' = auth_calls + 1
    /\ IF ~verify_credentials(req.username, req.password)
       THEN /\ auth_last' = [op |-> "authenticate", token |-> UnknownToken,
                             kind |-> "InvalidCredentials", now |-> auth_now]
            /\ UNCHANGED <<tokens, issued_at>>
       ELSE LET user == CHOOSE u \in find_by_username(req.username) : TRUE
                token == Cardinality(TokensIssued) + 1
            IN  /\ token \in TokenIds
                /\ tokens' = [tokens EXCEPT ![token] = <<new_session(user.id, auth_now)>>]
                /\ issued_at' = [issued_at EXCEPT ![token] = <<auth_now>>]
                /\ auth_last' = [op |-> "authenticate", token |-> token,
                                 kind |-> "Ok", now |-> auth_now]
    /\ UNCHANGED <<auth_now, revoked, not_auth_vars>>

\* validate_token with any string a caller presents
ValidateToken(token) ==
    /\ token \in Presentable
    /\ auth_calls < MaxAuthCalls
    /\ auth_calls' = auth_calls + 1
    /\ auth_last' = [op |-> "validate_token", token |-> token,
                     kind |-> validate_token(token, auth_now), now |-> auth_now]
    /\ UNCHANGED <<tokens, issued_at, auth_now, revoked, not_auth_vars>>

\* revoke_token with any string a caller presents: always Ok(())
RevokeToken(token) ==
    /\ token \in Presentable
    /\ auth_calls < MaxAuthCalls
    /\ auth_calls' = auth_calls + 1
    /\ tokens' = revoke(token)
    /\ revoked' = revoked \cup {token}
    /\ auth_last' = [op |-> "revoke_token", token |-> token, kind |-> "Ok",
                     now |-> auth_now]
    /\ UNCHANGED <<issued_at, auth_now, not_auth_vars>>

\* Utc::now() advances between calls
ClockTick ==
    /\ auth_now + ClockStepHours <= MaxClock
    /\ auth_now' = auth_now + ClockStepHours
    /\ UNCHANGED <<tokens, issued_at, revoked, auth_last, auth_calls, not_auth_vars>>

\* ------------------------------------------------------------------- claims
UReq == convert_grpc_to_internal_request(u_req[1])
UBody == u_reply[1].body
UDone == u_pc = "done"

\* msg holds the tokens of e, in order and contiguous
Contains(msg, e) ==
    /\ e # <<>>
    /\ \E i \in 1..Len(msg) :
        /\ i + Len(e) - 1 <= Len(msg)
        /\ SubSeq(msg, i, i + Len(e) - 1) = e

\* the item's dispatch succeeded: one of its kernel calls returned Ok
ItemSucceeded(i) ==
    \E k \in 1..Len(b_attempts) : b_attempts[k].item = i /\ b_attempts[k].ok

C2_BatchEchoesRequestId ==
    \A i \in 1..Len(emitted) : emitted[i].resp.request_id = requests[i].request_id

\* C3: when the dispatcher fails a request, the Analyze RPC still completes
\* with status OK, and its body has success=false and a non-empty message.
C3_FailureIsOkEnvelope ==
    (UDone /\ ~u_result[1].ok) =>
        /\ u_reply[1].status = "OK"
        /\ ~UBody.success
        /\ UBody.error_message # <<>>

\* the dispatcher failed after a native kernel ran and returned its error
C3_Witness ==
    /\ UDone
    /\ ~u_result[1].ok
    /\ Len(u_attempts) = 1
    /\ u_attempts[1].ran
    /\ u_reply[1].status = "OK"

\* C4: prefer_native and allow_alternate are set, the registry lists both
\* implementations and the native kernel fails: the alternate is then tried,
\* and when it succeeds the answer is a success whose
\* metadata.implementation names the alternate implementation.
C4_FallbackToAlternate ==
    (/\ UDone
     /\ UReq.options.prefer_rust
     /\ UReq.options.allow_python
     /\ RegistryImplementations(UReq.algorithm) = {"rust", "python"}
     /\ ~analyze_rust(UReq, 0).ok)
    => /\ Len(u_attempts) = 2
       /\ u_attempts[1].impl = "rust"
       /\ u_attempts[2].impl = "python"
       /\ u_attempts[2].ok =>
            /\ u_reply[1].status = "OK"
            /\ UBody.success
            /\ UBody.implementation = "python"

\* the native kernel failed, the alternate succeeded, the answer is a success
C4_Witness ==
    /\ UDone
    /\ RegistryImplementations(UReq.algorithm) = {"rust", "python"}
    /\ Len(u_attempts) = 2
    /\ ~u_attempts[1].ok
    /\ u_attempts[2].ok
    /\ UBody.success

\* the candidate list of the selection algorithm, "rust" for native and
\* "python" for alternate
Candidates(req) ==
    LET impls == RegistryImplementations(req.algorithm)
        alt   == req.options.allow_python /\ "python" \in impls
    IN  IF req.options.prefer_rust /\ "rust" \in impls
            THEN <<"rust">> \o (IF alt THEN <<"python">> ELSE <<>>)
        ELSE IF alt
            THEN <<"python">> \o (IF "rust" \in impls THEN <<"rust">> ELSE <<>>)
        ELSE IF "rust" \in impls THEN <<"rust">>
        ELSE <<>>

\* C5: when every candidate fails, each candidate was attempted exactly once
\* and the answer is success=false with a message that contains the error
\* the final candidate returned.
C5_ExhaustionReportsLastError ==
    (/\ UDone
     /\ Len(u_attempts) > 0
     /\ \A k \in 1..Len(u_attempts) : ~u_attempts[k].ok)
    => /\ [k \in 1..Len(u_attempts) |-> u_attempts[k].impl] = Candidates(UReq)
       /\ ~UBody.success
       /\ Contains(UBody.error_message, u_attempts[Len(u_attempts)].err)

\* C6: with prefer_native=false the native implementation is still tried
\* when the registry lists it: after the alternate when the alternate is
\* allowed and available (and failed), alone otherwise.
C6_NativeStillCandidate ==
    (/\ UDone
     /\ ~UReq.options.prefer_rust
     /\ "rust" \in RegistryImplementations(UReq.algorithm))
    => IF UReq.options.allow_python
          /\ "python" \in RegistryImplementations(UReq.algorithm)
       THEN /\ Len(u_attempts) >= 1
            /\ u_attempts[1].impl = "python"
            /\ ~u_attempts[1].ok =>
                 (Len(u_attempts) = 2 /\ u_attempts[2].impl = "rust")
       ELSE /\ Len(u_attempts) = 1
            /\ u_attempts[1].impl = "rust"

EffectiveTimeout(options) ==
    IF options.timeout_ms > 0 THEN options.timeout_ms ELSE DefaultTimeoutMs

\* C7: a candidate that runs longer than the effective timeout is aborted:
\* no success comes from a kernel call that took longer, and when the last
\* candidate took longer the request fails with Timeout.
C7_TimeoutHonoured ==
    UDone =>
        /\ UBody.success =>
             UBody.execution_time_ms <= EffectiveTimeout(UReq.options)
        /\ (/\ Len(u_attempts) > 0
            /\ u_attempts[Len(u_attempts)].elapsed > EffectiveTimeout(UReq.options))
           => (~UBody.success /\ UBody.error_message = <<"Timeout">>)

\* C8: only implementations the registry lists for the algorithm are
\* executed; when it lists none, the request fails and no kernel has run.
C8_OnlyListedImplementationsRun ==
    UDone =>
        /\ \A k \in 1..Len(u_attempts) :
             u_attempts[k].ran =>
                 is_algorithm_supported(UReq.algorithm, u_attempts[k].impl)
        /\ RegistryImplementations(UReq.algorithm) = {} => ~UBody.success

\* the items for which a kernel call has been started
KernelStartedItems ==
    {b_attempts[k].item : k \in 1..Len(b_attempts)}
        \cup (IF b_pc = "python" THEN {idx} ELSE {})

\* C9: once a BatchAnalyze stream is cancelled, what was emitted stands, no
\* further response is emitted, the loop does not advance, and no kernel call
\* is started for an item after the one that was current at cancellation.
C9_CancelStopsKernelWork ==
    stream_state = "CANCELLED" =>
        /\ emitted = cancel_at[1].emitted
        /\ idx = cancel_at[1].idx
        /\ \A i \in KernelStartedItems : i <= cancel_at[1].idx

\* cancelled after a first response, with a Python call in flight that ran
\* to its end, and requests still unserved
C9_Witness ==
    /\ stream_state = "CANCELLED"
    /\ Len(emitted) >= 1
    /\ idx <= Len(requests)
    /\ b_pc = "idle"
    /\ \E k \in 1..Len(b_attempts) :
         b_attempts[k].item = idx /\ b_attempts[k].impl = "python"

\* C10: after an Unavailable failure on a channel has been reported to the
\* caller, no call issued later holds that channel: it opens a new one.
C10_NoCallOnStaleChannel ==
    \A p \in Callers : c_pc[p] = "rpc" => c_chan[p] \notin c_stale[p]

\* C18: every response to a unary Analyze call carries the request_id of its
\* request, whether the request succeeded or failed.
C18_UnaryEchoesRequestId ==
    UDone => UBody.request_id = u_req[1].request_id

\* how an RPC ends when no reply was received
TransportErrors == {"unavailable", "status", "timeout"}

C11_ChannelOpenedOnceAndReused ==
    /\ s_pc = "idle" => s_opened = 0
    /\ s_opened <= 1
    /\ \A k \in 1..Len(s_calls) : s_calls[k].channel = s_calls[1].channel

\* C13: every Engine call the Gateway issues carries a deadline, which is
\* the request's options.timeout_ms when that is > 0 and the default of 30 s
\* otherwise.
C13_EveryCallHasDeadline ==
    \A k \in 1..Len(s_calls) :
        s_calls[k].deadline = <<EffectiveTimeout(s_calls[k].request.options[1])>>

\* the statistics list the composition in progress iterates over
SList == effective_statistics(s_stats[1])

IsComprehensive == s_req # <<>> /\ s_req[1].kind = "Comprehensive"

\* C15: in the comprehensive path the first failure of a step (generation,
\* validation or a statistic call) ends the composition: no Engine call is
\* issued after it, the caller gets success=false with that error in the
\* message, and no statistics are returned.
C15_FirstFailureAborts ==
    (IsComprehensive /\ s_error # <<>>) =>
        /\ s_pc = "done"
        /\ Len(s_calls) <= s_i
        /\ s_reply # <<>>
        /\ ~s_reply[1].success
        /\ Contains(s_reply[1].error, StatErrorText(s_error[1]))
        /\ s_reply[1].response_type = <<>>

\* a statistic call of a comprehensive request failed at the Engine while
\* statistics of the list were still to be computed
C15_Witness ==
    /\ IsComprehensive
    /\ s_error # <<>>
    /\ s_error[1].kind = "AnalyticsEngine"
    /\ Len(s_calls) < Len(SList)

\* the first n elements of a sequence, all of it when it is shorter
Take(seq, n) == SubSeq(seq, 1, IF Len(seq) < n THEN Len(seq) ELSE n)

\* C17: a comprehensive request generates its data before any statistic call
\* is issued; every statistic call carries exactly the generated sequence,
\* whatever data the statistics configuration arrived with; and the returned
\* data_summary has the count and seed used for generation and the first 10
\* generated elements as preview.
C17_StatisticsOverGeneratedData ==
    IsComprehensive =>
        /\ s_calls # <<>> => s_gen # <<>>
        /\ s_gen # <<>> =>
            /\ s_gen[1].count = s_req[1].data_config.count
            /\ Len(s_gen[1].data) = s_gen[1].count
            /\ s_req[1].data_config.seed # <<>> =>
                 s_gen[1].seed = s_req[1].data_config.seed[1]
            /\ s_gen[1].data = generate_uniform(s_gen[1].count, s_gen[1].seed)
            /\ \A k \in 1..Len(s_calls) : s_calls[k].request.data = s_gen[1].data
        /\ (s_reply # <<>> /\ s_reply[1].success) =>
            LET body == s_reply[1].response_type[1]
            IN  /\ body.data_summary.count = s_gen[1].count
                /\ body.data_summary.seed = s_gen[1].seed
                /\ body.data_summary.preview = Take(s_gen[1].data, 10)
                /\ body.statistics.count = Len(s_gen[1].data)

\* a comprehensive request that arrived with data of its own in the
\* statistics configuration and asked for more than 10 elements has succeeded
C17_Witness ==
    /\ IsComprehensive
    /\ s_reply # <<>>
    /\ s_reply[1].success
    /\ s_req[1].stats_config.data # <<>>
    /\ s_req[1].data_config.count > 10

\* statistic names some implementation of the Engine knows
KnownStatistics == RustKernelAlgorithms \cup PythonCatalog

\* C19: a statistic name nobody knows does not fail the composition: when
\* the composition fails on the Engine's answer to a statistic call, that
\* call was for a known statistic.
C19_UnknownNameDoesNotFail ==
    (s_error # <<>> /\ s_error[1].kind = "AnalyticsEngine") =>
        s_calls[Len(s_calls)].request.algorithm \in KnownStatistics

HasNonFinite(data) ==
    \E k \in 1..Len(data) : is_nan(data[k]) \/ is_infinite(data[k])

\* C20: a request whose data contains NaN or an infinity is rejected with a
\* Validation error, and no Engine call is ever issued for it.
C20_NonFiniteDataRejected ==
    (s_stats # <<>> /\ HasNonFinite(s_stats[1].data)) =>
        /\ s_calls = <<>>
        /\ s_error # <<>>
        /\ s_error[1].kind = "Validation"

\* C16: when the Engine answers a forwarded request with a failure envelope
\* (success=false), the Gateway answers its caller with status OK and a
\* body with success=false and the same error message; an RPC error status
\* is returned only when the client failed in transport.
C16_FailureEnvelopePassedThrough ==
    px_pc = "done" =>
        /\ (px_engine[1].ok /\ ~px_engine[1].response.success) =>
             /\ px_reply[1].status = "OK"
             /\ px_reply[1].body # <<>>
             /\ ~px_reply[1].body[1].success
             /\ px_reply[1].body[1].error = px_engine[1].response.error_message
        /\ px_reply[1].status # "OK" => ~px_engine[1].ok

\* the Engine algorithms that would produce a random sequence
GenerateAlgorithms == {"generate_uniform", "generate_normal", "generate_exponential"}

\* C21: the sequence of generate_data comes from the Engine: when the
\* composition holds generated data, it has issued an Analyze call with a
\* generate_<distribution> algorithm.
C21_GenerationByEngineCall ==
    s_gen # <<>> =>
        \E k \in 1..Len(s_calls) : s_calls[k].request.algorithm \in GenerateAlgorithms

\* C22: the availability of the alternate bridge is determined once, at
\* startup: no request runs the probe again, all HealthChecks of one process
\* report the same value, and a request is handed to Python only in a
\* process whose HealthChecks report it available.
C22_ProbedOnceAtStartup ==
    /\ probes = 0
    /\ \A i, j \in 1..Len(h_seen) : h_seen[i] = h_seen[j]
    /\ (\E k \in 1..Len(u_attempts) : u_attempts[k].impl = "python") =>
         \A i \in 1..Len(h_seen) : h_seen[i] = "available"

\* the request of batch item i, as the dispatcher receives it
BReq(i) == convert_grpc_to_internal_request(requests[i])

\* the dispatcher reaches its Python step for this request
ReachesPython(req) ==
    /\ python_bridge
    /\ req.options.allow_python
    /\ ~(req.options.prefer_rust /\ analyze_rust(req, 0).ok)

\* C23: a failure of the alternate bridge does not disable it: every request
\* served, whatever failed before it, was handed to Python when the bridge is
\* compiled in, the request allows it and the native kernel gave no result.
C23_BridgeStaysEnabled ==
    \A i \in 1..Len(requests) :
        (i < idx /\ ReachesPython(BReq(i))) =>
            \E k \in 1..Len(b_attempts) :
                b_attempts[k].item = i /\ b_attempts[k].impl = "python"

\* the Python call of the first item failed and the second item was handed
\* to Python all the same
C23_Witness ==
    \E j, k \in 1..Len(b_attempts) :
        /\ b_attempts[j].item = 1 /\ b_attempts[j].impl = "python" /\ ~b_attempts[j].ok
        /\ b_attempts[k].item = 2 /\ b_attempts[k].impl = "python"

NotImplementedInRust == <<"not implemented in Rust">>

\* a request for `algorithm` over `data`, as the native kernel receives it
KernelRequest(algorithm, data) ==
    [request_id |-> "", algorithm |-> algorithm, data |-> data,
     params |-> EmptyParams, options |-> ProtoDefaultOptions]

\* C24: every algorithm the registry lists with the "rust" implementation has
\* an arm in the native kernel: neither on any data nor in any dispatch made
\* does the kernel answer "not implemented in Rust" for such an algorithm.
C24_RegistryRustIsImplemented ==
    /\ \A a \in Algorithms \cup RegistryRust \cup RustKernelAlgorithms :
        \A data \in Datas :
            is_algorithm_supported(a, "rust") =>
                ~Contains(analyze_rust(KernelRequest(a, data), 0).err,
                          NotImplementedInRust)
    /\ \A k \in 1..Len(u_attempts) :
        (u_attempts[k].impl = "rust" /\ is_algorithm_supported(UReq.algorithm, "rust"))
            => ~Contains(u_attempts[k].err, NotImplementedInRust)

\* a registry-listed algorithm was dispatched to the native kernel and ran
C24_Witness ==
    /\ UDone
    /\ \E k \in 1..Len(u_attempts) :
        /\ u_attempts[k].impl = "rust" /\ u_attempts[k].ok
        /\ UReq.algorithm = "variance"
        /\ is_algorithm_supported(UReq.algorithm, "rust")

Connecting == {p \in Callers : c_pc[p] \in {"connect", "cache_write"}}

\* C28: calls racing on a client with no cached channel are coordinated by
\* the lock: at most one of them is establishing a connection at a time, the
\* others wait and then use the channel it cached.
C28_OneConnectionPerRace == Cardinality(Connecting) <= 1

\* the call failed because the name is held by another item
NameTaken(r) ==
    \/ r.kind = "ItemNameExists"
    \/ r.kind = "Database"
        /\ Contains(r.message, <<"UNIQUE constraint failed: items.name">>)

\* C26: no two stored items have the same name, and every create_item or
\* update_item that met a name held by a different item failed with
\* ItemNameExists.
C26_NamesUniqueAndConflictsReported ==
    /\ \A i, j \in Ids :
        (i # j /\ items_table[i] # <<>> /\ items_table[j] # <<>>)
            => items_table[i][1].name # items_table[j][1].name
    /\ \A r \in crud_returns :
        (r.op \in {"create_item", "update_item"} /\ NameTaken(r))
            => r.kind = "ItemNameExists"

\* C27: a get_item(id) called after delete_item(id) returned success fails
\* with ItemNotFound.
C27_DeletedItemNotServed ==
    \A r \in crud_returns :
        (r.op = "get_item" /\ r.after_delete) => r.kind = "ItemNotFound"

\* no call is in progress
CrudQuiescent == \A t \in CrudTasks : cr_pc[t] = "idle"

\* some update_item on the id has succeeded
Updated(id) ==
    \E r \in crud_returns : r.op = "update_item" /\ r.id = id /\ r.kind = "Ok"

\* C29: once the update_item calls on an id have returned, the cached copy of
\* the item is the stored item, so get_item(id) returns the item as last
\* written to the store.
C29_CacheAgreesWithStore ==
    \A id \in Ids :
        (/\ CrudQuiescent
         /\ Updated(id)
         /\ item_cache[id] # <<>>
         /\ items_table[id] # <<>>)
            => item_cache[id] = find_by_id(id)

\* the token's 24 hours are over at time `now`
Expired(token, now) == issued_at[token][1] + TokenTtlHours < now

\* a call of the auth service was served in this step
AuthServed == auth_calls' = auth_calls + 1

\* C30: validate_token(t) succeeds exactly when t was issued by a successful
\* login, has not been revoked and has not expired; after revoke_token(t) it
\* fails with InvalidToken; a failed login stores no token; revoke_token
\* succeeds, and for a token that holds no session it changes nothing.
C30_ValidExactlyWhenIssuedLiveAndUnexpired ==
    [][AuthServed =>
        LET r == auth_last'
        IN  /\ r.op = "validate_token" =>
                /\ (r.kind = "Ok") <=>
                        /\ r.token \in TokensIssued
                        /\ r.token \notin revoked
                        /\ ~Expired(r.token, r.now)
                /\ r.token \in revoked => r.kind = "InvalidToken"
                /\ UNCHANGED tokens
            /\ (r.op = "authenticate" /\ r.kind # "Ok") =>
                UNCHANGED <<tokens, issued_at>>
            /\ (r.op = "authenticate" /\ r.kind = "Ok") =>
                /\ r.token \notin TokensIssued
                /\ tokens'[r.token] # <<>>
            /\ r.op = "revoke_token" =>
                /\ r.kind = "Ok"
                /\ tokens[r.token] = <<>> => UNCHANGED tokens
                /\ \A t \in TokenStrings \ {r.token} : tokens'[t] = tokens[t]
    ]_vars

\* a token issued by a login and then revoked was presented before its
\* expiry and refused
C30_Witness ==
    /\ auth_last.op = "validate_token"
    /\ auth_last.token \in TokensIssued
    /\ auth_last.token \in revoked
    /\ ~Expired(auth_last.token, auth_last.now)
    /\ auth_last.kind = "InvalidToken"

\* ------------------------------------------------------------ specifications
\* everything but the Python environment
InitProcesses ==
    /\ python_bridge \in BOOLEAN
    /\ python_catalog = (IF python_bridge THEN PythonCatalog ELSE {})
    /\ u_pc = "idle"
    /\ u_req = <<>>
    /\ u_attempts = <<>>
    /\ u_result = <<>>
    /\ u_reply = <<>>
    /\ stream_state = "NONE"
    /\ requests = <<>>
    /\ idx = 1
    /\ b_pc = "idle"
    /\ b_attempts = <<>>
    /\ emitted = <<>>
    /\ cancel_at = <<>>
    /\ cache = <<>>
    /\ opened = 0
    /\ inv_pending = 0
    /\ c_pc = [p \in Callers |-> "idle"]
    /\ c_chan = [p \in Callers |-> 0]
    /\ c_outcome = [p \in Callers |-> "none"]
    /\ c_stale = [p \in Callers |-> {}]
    /\ reported = {}
    /\ calls = 0
    /\ c_sent = [p \in Callers |-> 0]
    /\ s_pc = "idle"
    /\ s_req = <<>>
    /\ s_gen = <<>>
    /\ s_stats = <<>>
    /\ s_i = 1
    /\ s_results = <<>>
    /\ s_calls = <<>>
    /\ s_opened = 0
    /\ s_error = <<>>
    /\ s_reply = <<>>
    /\ px_pc = "idle"
    /\ px_req = <<>>
    /\ px_engine = <<>>
    /\ px_reply = <<>>
    /\ probes = 0
    /\ h_seen = <<>>
    /\ performance_metrics = <<>>
    /\ g_pc = [p \in GenTasks |-> "idle"]
    /\ g_held = [p \in GenTasks |-> <<>>]
    /\ g_log = <<>>
    /\ item_cache = [i \in Ids |-> <<>>]
    /\ cr_pc = [t \in CrudTasks |-> "idle"]
    /\ cr_call = [t \in CrudTasks |-> <<>>]
    /\ cr_item = [t \in CrudTasks |-> <<>>]
    /\ crud_calls = 0
    /\ crud_returns = {}
    /\ tokens = [t \in TokenStrings |-> <<>>]
    /\ auth_now = 0
    /\ issued_at = [t \in TokenStrings |-> <<>>]
    /\ revoked = {}
    /\ auth_last = [op |-> "none", token |-> UnknownToken, kind |-> "none", now |-> 0]
    /\ auth_calls = 0

\* the Python module is importable where the bridge is compiled in
Init ==
    /\ InitProcesses
    /\ py_importable = python_bridge
    /\ EmptyStore

Next ==
    \/ \E g \in GrpcRequests, d \in Durations : Analyze(g, d)
    \/ \E pyok \in BOOLEAN, d \in Durations : AnalyzePythonDone(pyok, d)

Spec == Init /\ [][Next]_vars

BatchNext ==
    \/ \E reqs \in Batches : BatchAnalyze(reqs)
    \/ \E d \in BatchDurations : BatchPoll(d)
    \/ \E pyok \in BOOLEAN, d \in BatchDurations : BatchPythonDone(pyok, d)
    \/ BatchEnd
    \/ BatchCancel
    \/ \E pyok \in BOOLEAN, d \in BatchDurations : BatchOrphanPythonDone(pyok, d)

BatchSpec == Init /\ [][BatchNext]_vars

ClientNext ==
    \/ \E p \in Callers : ClientAnalyze(p)
    \/ \E p \in Callers : GetClientCached(p)
    \/ \E p \in Callers : GetClientMiss(p)
    \/ \E p \in Callers : ConnectOk(p)
    \/ \E p \in Callers : ConnectFail(p)
    \/ \E p \in Callers : CacheWrite(p)
    \/ \E p \in Callers, o \in RpcOutcomes : RpcReturn(p, o)
    \/ RunInvalidation
    \/ disconnect

ClientSpec == Init /\ [][ClientNext]_vars

StatNext ==
    \/ \E r \in StatisticsRequests, clock \in ClockSeeds : Statistics(r, clock)
    \/ StatConnectOk
    \/ StatConnectFail
    \/ StatRpcStatus
    \/ \E pyok \in BOOLEAN, d \in BatchDurations : StatRpcReply(pyok, d)

StatSpec == Init /\ [][StatNext]_vars

ProxyNext ==
    \/ \E r \in ProxyRequests : AnalyticsProxy(r)
    \/ \E pyok \in BOOLEAN, d \in Durations : ProxyAnalyzeOk(pyok, d)
    \/ \E f \in ClientFailures : ProxyAnalyzeErr(f)

ProxySpec == Init /\ [][ProxyNext]_vars

\* the Python module may or may not be importable when the Engine starts
HealthInit ==
    /\ InitProcesses
    /\ py_importable \in BOOLEAN
    /\ EmptyStore

HealthNext ==
    \/ \E g \in GrpcRequests, d \in Durations : Analyze(g, d)
    \/ \E pyok \in BOOLEAN, d \in Durations : HealthAnalyzePythonDone(pyok, d)
    \/ HealthCheck
    \/ ModuleInstalled

HealthSpec == HealthInit /\ [][HealthNext]_vars

GenNext ==
    \/ \E p \in GenTasks, cfg \in GenConfigs, clock \in ClockSeeds :
            GenerateData(p, cfg, clock)
    \/ \E p \in GenTasks : GenerateDataReturn(p)

GenSpec == Init /\ [][GenNext]_vars

CrudInit ==
    /\ InitProcesses
    /\ py_importable = python_bridge
    /\ (EmptyStore \/ PersistedStore)

CrudNext ==
    \/ \E t \in CrudTasks, call \in CrudCalls : CrudCall(t, call)
    \/ \E t \in CrudTasks : CreateFindByName(t)
    \/ \E t \in CrudTasks : CreateSave(t)
    \/ \E t \in CrudTasks : CreateCache(t)
    \/ \E t \in CrudTasks : GetCache(t)
    \/ \E t \in CrudTasks : GetFindById(t)
    \/ \E t \in CrudTasks : GetFill(t)
    \/ \E t \in CrudTasks : UpdateFindById(t)
    \/ \E t \in CrudTasks : UpdateFindByName(t)
    \/ \E t \in CrudTasks : UpdateWrite(t)
    \/ \E t \in CrudTasks : UpdateCache(t)
    \/ \E t \in CrudTasks : DeleteFindById(t)
    \/ \E t \in CrudTasks : DeleteRow(t)
    \/ \E t \in CrudTasks : DeleteCache(t)

CrudSpec == CrudInit /\ [][CrudNext]_vars

AuthNext ==
    \/ \E req \in LoginRequests : Authenticate(req)
    \/ \E token \in TokenStrings : ValidateToken(token)
    \/ \E token \in TokenStrings : RevokeToken(token)
    \/ ClockTick

AuthSpec == Init /\ [][AuthNext]_vars

====
